---- MODULE Spec2Model ----
(***************************************************************************)
(* Model of the vector-store synchronizer of chatbot/VectorStore.py:       *)
(* the remote bucket, the local ./vectorStore directory and the public     *)
(* operations that move an index between them, with their retry loops;     *)
(* and of the ChatBot class of chatbot/ChatBot.py: its construction, its    *)
(* finalizer and its chat history.                                         *)
(*                                                                         *)
(*   Spec         one caller, the public operations one at a time          *)
(*   SpecDirect   Spec and the file upload called on its own               *)
(*   SpecChat     indexes are built, ChatBots constructed and finalized    *)
(*   SpecHistory  the history lookups of one ChatBot object                *)
(*   SpecRace     two callers inside getS3VectorStoreFor at once           *)
(*                                                                         *)
(* Text (ids, object keys, file names) is a sequence of one-character      *)
(* strings, so that prefix matching and split("/") are computed as the     *)
(* code computes them.  The literal "vectorstores" is one token.           *)
(***************************************************************************)
EXTENDS Integers, Sequences, FiniteSets, TLC

VARIABLES inited, s3, files, dirs, built, last, prev, ops, bots, garbage, chat, race

vars == <<inited, s3, files, dirs, built, last, prev, ops, bots, garbage, chat, race>>

-----------------------------------------------------------------------------
(* Bounds *)

\* longest chain of nested directories inside a built index tree
MaxDepth == 1
\* longest run of consecutive failing remote calls inside one operation
MaxFail == 6
\* latest remote call of an operation at which that run may begin
MaxStart == 4
\* most calls of the public operations in one run
MaxOps == 4
\* most calls made to set the store up before the concurrent callers run
MaxSetup == 2
\* most history lookups made on one ChatBot object
MaxLookups == 4

\* retry loops: "for retry in range(3)"
Retries == 3

-----------------------------------------------------------------------------
(* Text *)

SLASH == "/"

Alphabet == <<"/", "a", "b", "d", "f", "g", "vectorstores">>

Rank(c) == CHOOSE i \in 1..Len(Alphabet) : Alphabet[i] = c

\* str.startswith
StartsWith(s, p) == Len(p) <= Len(s) /\ SubSeq(s, 1, Len(p)) = p

\* byte order of two strings, the order in which the bucket lists keys
RECURSIVE StrLess(_, _)
StrLess(s, t) ==
    IF s = <<>> THEN t # <<>>
    ELSE IF t = <<>> THEN FALSE
    ELSE IF Head(s) = Head(t) THEN StrLess(Tail(s), Tail(t))
    ELSE Rank(Head(s)) < Rank(Head(t))

\* str.split("/"): the list of segments, empty segments kept
RECURSIVE SplitAcc(_, _, _)
SplitAcc(s, cur, acc) ==
    IF s = <<>> THEN Append(acc, cur)
    ELSE IF Head(s) = SLASH THEN SplitAcc(Tail(s), <<>>, Append(acc, cur))
    ELSE SplitAcc(Tail(s), Append(cur, Head(s)), acc)

Split(s) == SplitAcc(s, <<>>, <<>>)

\* "/".join(segments)
RECURSIVE Join(_)
Join(segs) ==
    IF segs = <<>> THEN <<>>
    ELSE IF Len(segs) = 1 THEN segs[1]
    ELSE segs[1] \o <<SLASH>> \o Join(Tail(segs))

\* a file-system path as the list of its non-empty segments ("a//f" is a/f)
RECURSIVE DropEmpty(_)
DropEmpty(segs) ==
    IF segs = <<>> THEN <<>>
    ELSE IF Head(segs) = <<>> THEN DropEmpty(Tail(segs))
    ELSE <<Head(segs)>> \o DropEmpty(Tail(segs))

PathOf(s) == DropEmpty(Split(s))

\* every non-empty prefix of a path: the directories "mkdir -p" creates
Prefixes(p) == {SubSeq(p, 1, i) : i \in 1..Len(p)}

-----------------------------------------------------------------------------
(* Inputs *)

Ids == {<<"a">>, <<"a", "b">>}

FileNames == {<<"f">>}
DirNames == {<<"d">>}
Names == FileNames \cup DirNames

\* relative paths of the files an index tree may hold, as lists of segments
RECURSIVE DirChains(_)
DirChains(k) ==
    IF k = 0 THEN {<<>>}
    ELSE DirChains(k - 1) \cup
         {<<d>> \o c : d \in DirNames, c \in {x \in DirChains(k - 1) : Len(x) = k - 1}}

RelPaths == {c \o <<f>> : c \in DirChains(MaxDepth), f \in FileNames}

\* the values of the father argument: None (empty) or a "/"-joined chain
Fathers == {Join(c) : c \in DirChains(MaxDepth)}

\* the trees Chroma may persist: non-empty sets of files
Trees == (SUBSET RelPaths) \ {{}}

\* os.listdir returns the entries in arbitrary order: an order of the names
Orders == {o \in [1..Cardinality(Names) -> Names] :
             \A i, j \in 1..Cardinality(Names) : i # j => o[i] # o[j]}

\* the remote calls of one operation that raise: one run of consecutive calls
FailSets == {{}} \cup {s..(s + l - 1) : s \in 1..MaxStart, l \in 1..MaxFail}

-----------------------------------------------------------------------------
(* The machine: module globals, bucket, local disk, and the bookkeeping of  *)
(* the operation in progress.                                               *)
(*   n      remote calls made so far by the operation                       *)
(*   log    "attempt" / "delay" events of the retry loop run last           *)
(*   ret    value returned, exc exception raised ("none" if none)           *)
(*   upx    some file upload used up its retries                            *)
(*   raised exceptions raised inside the operation's retry loops            *)
(*   delret what the last deleteS3VectorstoreFor call returned              *)
(*   dlret  what __downloadS3VectorstoreFor returned                        *)
(*   old    the local directory found when the operation began is still     *)
(*          there                                                           *)
(*   overOld a file of the new index was written while old held             *)

Machine(F, ord) ==
    [inited |-> inited, s3 |-> s3, files |-> files, dirs |-> dirs,
     F |-> F, ord |-> ord, n |-> 0, log |-> <<>>, ret |-> "None",
     exc |-> "none", upx |-> FALSE, raised |-> 0, delret |-> "None",
     dlret |-> "None", old |-> FALSE, overOld |-> FALSE, store |-> "unset"]

Return(m, v) == [m EXCEPT !.ret = v]
Raise(m, e) == [m EXCEPT !.exc = e]

\* an exception raised inside a try block
Throw(m) == [m EXCEPT !.exc = "RemoteError", !.raised = @ + 1]

\* one pass through the body of a retry loop begins
Attempt(m) == [m EXCEPT !.log = Append(@, "attempt")]

\* sleep(3)
Sleep(m) == [m EXCEPT !.log = Append(@, "delay")]

\* a call on __S3 or __bucket is made; it raises when the network fails, and
\* when the client is still None
RemoteCall(m) ==
    LET k == m.n + 1 IN
    IF (~m.inited) \/ k \in m.F THEN Throw([m EXCEPT !.n = k])
    ELSE [m EXCEPT !.n = k]

\* a handler that lets the exception of the last attempt escape
CaughtButLast(m, retry) == m.exc # "none" /\ retry < Retries - 1

\* "except Exception as e": what the handler of a retry loop catches
Caught(m, retry) == m.exc # "none"

\* a handler that retries at once
HandleNoSleep(m) == [m EXCEPT !.exc = "none"]

\* the handler: debug, debug, sleep(3)
Handle(m) == Sleep([m EXCEPT !.exc = "none"])

\* a check that never raises
checkS3initNever(m) == FALSE

\* __checkS3init raises
checkS3init(m) == ~m.inited

\* Prefix=f"vectorstores/{id}"
PrefixOf(id) == <<"vectorstores", SLASH>> \o id

\* list_objects(Bucket, Prefix): the keys beginning with the prefix
Listing(m, id) == {k \in m.s3 : StartsWith(k, PrefixOf(id))}

\* res["Contents"]: the listed keys in byte order
RECURSIVE SortKeys(_)
SortKeys(S) ==
    IF S = {} THEN <<>>
    ELSE LET mn == CHOOSE k \in S : \A j \in S \ {k} : StrLess(k, j)
         IN <<mn>> \o SortKeys(S \ {mn})

-----------------------------------------------------------------------------
(* checkS3VectorStoreFor *)

RECURSIVE checkLoop(_, _, _)
checkLoop(m, id, retry) ==
    IF retry = Retries THEN Return(m, "False")
    ELSE LET m1 == RemoteCall(Attempt(m)) IN
         IF m1.exc # "none"
         THEN IF Caught(m1, retry) THEN checkLoop(Handle(m1), id, retry + 1)
              ELSE m1
         ELSE Return(m1, IF Listing(m1, id) = {} THEN "False" ELSE "True")

checkS3VectorStoreFor(m, id) ==
    IF checkS3init(m) THEN Raise(m, "ConfigError")
    ELSE checkLoop([m EXCEPT !.log = <<>>], id, 0)

-----------------------------------------------------------------------------
(* deleteS3VectorstoreFor *)

\* a loop that sends the key list before the current key is appended to it
RECURSIVE deleteObjectsStale(_, _, _)
deleteObjectsStale(m, ks, i) ==
    IF i > Len(ks) THEN Return(m, "True")
    ELSE LET m1 == RemoteCall(m) IN
         IF m1.exc # "none" THEN m1
         ELSE deleteObjectsStale([m1 EXCEPT !.s3 = @ \ {ks[j] : j \in 1..(i - 1)}], ks, i + 1)

\* the loop over res["Contents"]: the i-th pass deletes the first i keys
RECURSIVE deleteObjects(_, _, _)
deleteObjects(m, ks, i) ==
    IF i > Len(ks) THEN Return(m, "True")
    ELSE LET m1 == RemoteCall(m) IN
         IF m1.exc # "none" THEN m1
         ELSE deleteObjects([m1 EXCEPT !.s3 = @ \ {ks[j] : j \in 1..i}], ks, i + 1)

deleteBody(m, id) ==
    LET m1 == RemoteCall(m) IN
    IF m1.exc # "none" THEN m1
    ELSE IF Listing(m1, id) = {} THEN Return(m1, "True")
    ELSE deleteObjects(m1, SortKeys(Listing(m1, id)), 1)

RECURSIVE deleteLoop(_, _, _)
deleteLoop(m, id, retry) ==
    IF retry = Retries THEN Return(m, "False")
    ELSE LET m1 == deleteBody(Attempt(m), id) IN
         IF m1.exc # "none"
         THEN IF Caught(m1, retry) THEN deleteLoop(Handle(m1), id, retry + 1)
              ELSE m1
         ELSE m1

deleteS3VectorstoreFor(m, id) ==
    IF checkS3init(m) THEN Raise(m, "ConfigError")
    ELSE LET r == deleteLoop([m EXCEPT !.log = <<>>], id, 0)
         IN [r EXCEPT !.delret = IF r.exc = "none" THEN r.ret ELSE @]

-----------------------------------------------------------------------------
(* the local store *)

\* os.path.abspath(f"./vectorStore/{id}") relative to ./vectorStore
LocalDir(id) == PathOf(id)

\* __getLocalVectorStoreFor: None when the path is missing or Chroma fails
getLocalVectorStoreFor(m, id, openOk) ==
    IF LocalDir(id) \notin m.dirs THEN Return(m, "None")
    ELSE Return(m, IF openOk THEN "Chroma" ELSE "None")

\* deleteLocalVectorStore: rm -rf ./vectorStore/{id}
deleteLocalVectorStore(m, id) ==
    [m EXCEPT !.files = {p \in @ : ~StartsWith(p, LocalDir(id))},
              !.dirs = {p \in @ : ~StartsWith(p, LocalDir(id))},
              !.old = FALSE,
              !.ret = "True"]

\* the operation on id begins: is there a local directory of id?
Enter(m, id) == [m EXCEPT !.old = LocalDir(id) \in m.dirs]

\* mkdir -p
MkdirP(m, p) == [m EXCEPT !.dirs = @ \cup Prefixes(p)]

-----------------------------------------------------------------------------
(* __downloadS3VectorstoreFor *)

\* key.split("/")[-1]
FileNameOf(key) == LET segs == Split(key) IN segs[Len(segs)]

\* "/".join(key.split("/")[2:-1])
FatherOf(key) == LET segs == Split(key) IN Join(SubSeq(segs, 3, Len(segs) - 1))

\* the loop over res["Contents"]: mkdir -p, then download_file
RECURSIVE downloadObjects(_, _, _, _)
downloadObjects(m, id, ks, i) ==
    IF i > Len(ks) THEN Return(m, "True")
    ELSE LET key == ks[i]
             father == FatherOf(key)
             dir == IF father # <<>> THEN PathOf(id \o <<SLASH>> \o father)
                    ELSE PathOf(id)
             target == PathOf(id \o <<SLASH>> \o father \o <<SLASH>> \o FileNameOf(key))
             m1 == RemoteCall(MkdirP(m, dir))
         IN IF m1.exc # "none" THEN m1
            ELSE downloadObjects([m1 EXCEPT !.files = @ \cup {target},
                                            !.overOld = @ \/ m1.old], id, ks, i + 1)

downloadBody(m, id) ==
    LET m1 == RemoteCall(m) IN
    IF m1.exc # "none" THEN m1
    ELSE IF Listing(m1, id) = {} THEN Return(m1, "False")
    ELSE downloadObjects(m1, id, SortKeys(Listing(m1, id)), 1)

\* the three attempts are used up, the local copy stays
downloadFailedKeepsLocal(m, id) == Return(m, "False")

\* the three attempts are used up: the local copy is deleted, False returned
downloadFailed(m, id) == Return(deleteLocalVectorStore(m, id), "False")

RECURSIVE downloadLoop(_, _, _)
downloadLoop(m, id, retry) ==
    IF retry = Retries THEN downloadFailed(m, id)
    ELSE LET m1 == downloadBody(Attempt(m), id) IN
         IF m1.exc # "none"
         THEN IF Caught(m1, retry) THEN downloadLoop(Handle(m1), id, retry + 1)
              ELSE m1
         ELSE m1

downloadS3VectorstoreFor(m, id) ==
    IF checkS3init(m) THEN Raise(m, "ConfigError")
    ELSE LET r == downloadLoop(deleteLocalVectorStore([m EXCEPT !.log = <<>>], id), id, 0)
         IN [r EXCEPT !.dlret = IF r.exc = "none" THEN r.ret ELSE @]

\* getS3VectorStoreFor
getS3VectorStoreFor(m, id, openOk) ==
    LET m1 == downloadS3VectorstoreFor(Enter(m, id), id) IN
    IF m1.exc # "none" THEN m1
    ELSE IF m1.ret = "True" THEN getLocalVectorStoreFor(m1, id, openOk)
    ELSE Return(m1, "None")

-----------------------------------------------------------------------------
(* __upload_file *)

\* f"vectorstores/{id}/{father}/{file_name}" or f"vectorstores/{id}/{file_name}"
UploadKey(id, file_name, father) ==
    IF father # <<>>
    THEN <<"vectorstores", SLASH>> \o id \o <<SLASH>> \o father \o <<SLASH>> \o file_name
    ELSE <<"vectorstores", SLASH>> \o id \o <<SLASH>> \o file_name

\* f"./vectorStore/{id}/{father}/{file_name}" or f"./vectorStore/{id}/{file_name}"
UploadSource(id, file_name, father) ==
    IF father # <<>>
    THEN PathOf(id \o <<SLASH>> \o father \o <<SLASH>> \o file_name)
    ELSE PathOf(id \o <<SLASH>> \o file_name)

\* __bucket.upload_file(file_name, path): raises too when the local file is gone
uploadBody(m, id, file_name, father) ==
    LET m1 == RemoteCall(m) IN
    IF m1.exc # "none" THEN m1
    ELSE IF UploadSource(id, file_name, father) \notin m1.files
         THEN Throw(m1)
    ELSE Return([m1 EXCEPT !.s3 = @ \cup {UploadKey(id, file_name, father)}], "True")

RECURSIVE uploadLoop(_, _, _, _, _)
uploadLoop(m, id, file_name, father, retry) ==
    IF retry = Retries THEN Return([m EXCEPT !.upx = TRUE], "False")
    ELSE LET m1 == uploadBody(Attempt(m), id, file_name, father) IN
         IF m1.exc # "none"
         THEN IF Caught(m1, retry)
              THEN uploadLoop(Handle(m1), id, file_name, father, retry + 1)
              ELSE m1
         ELSE m1

upload_file(m, id, file_name, father) ==
    IF checkS3init(m) THEN Raise(m, "ConfigError")
    ELSE uploadLoop([m EXCEPT !.log = <<>>], id, file_name, father, 0)

-----------------------------------------------------------------------------
(* __uploadS3VectorstoreFor *)

\* os.listdir(path), in the order the file system happens to give
ListDir(m, path) ==
    LET kids == {p[Len(path) + 1] : p \in {q \in m.files \cup m.dirs :
                        Len(q) = Len(path) + 1 /\ StartsWith(q, path)}}
    IN SelectSeq(m.ord, LAMBDA x : x \in kids)

\* a cleanup that leaves the bucket alone
uploadFailedKeepsRemote(m, id) == Return(deleteLocalVectorStore(m, id), "False")

\* a file could not be uploaded: the index is removed from the bucket and the
\* disk, and the upload reports failure
uploadFailed(m, id) ==
    LET m1 == deleteS3VectorstoreFor(m, id) IN
    IF m1.exc # "none" THEN m1
    ELSE Return(deleteLocalVectorStore(m1, id), "False")

RECURSIVE uploadS3VectorstoreFor(_, _, _, _)
RECURSIVE uploadEntries(_, _, _, _, _, _)

\* the loop over list_of_files
uploadEntries(m, id, path, father, names, i) ==
    IF i > Len(names) THEN Return(m, "True")
    ELSE LET file_name == names[i]
             file_path == Append(path, file_name)
         IN IF file_path \in m.dirs
            THEN LET fatherPath == IF father # <<>>
                                   THEN father \o <<SLASH>> \o file_name
                                   ELSE file_name
                     m1 == uploadS3VectorstoreFor(m, id, file_path, fatherPath)
                 IN IF m1.exc # "none" THEN m1
                    ELSE uploadEntries(m1, id, path, father, names, i + 1)
            ELSE LET m1 == upload_file(m, id, file_name, father) IN
                 IF m1.exc # "none" THEN m1
                 ELSE IF m1.ret # "True" THEN uploadFailed(m1, id)
                 ELSE uploadEntries(m1, id, path, father, names, i + 1)

uploadS3VectorstoreFor(m, id, path, father) ==
    LET m1 == deleteS3VectorstoreFor(m, id) IN
    IF m1.exc # "none" THEN m1
    ELSE IF path \notin m1.dirs THEN Raise(m1, "FileNotFoundError")
    ELSE uploadEntries(m1, id, path, father, ListDir(m1, path), 1)

-----------------------------------------------------------------------------
(* buildS3VectorStoreFor *)

\* __buildLocalVectorStoreFor: __load_document raises when the knowledge pool
\* is missing; Chroma.from_documents persists its files into ./vectorStore/{id}
buildLocalVectorStoreFor(m, id, pool, tree) ==
    IF ~pool THEN Raise(m, "PoolNotFound")
    ELSE [m EXCEPT !.overOld = @ \/ m.old,
                   !.files = @ \cup {LocalDir(id) \o rel : rel \in tree},
                   !.dirs = @ \cup UNION {Prefixes(SubSeq(LocalDir(id) \o rel, 1,
                                              Len(LocalDir(id) \o rel) - 1)) : rel \in tree}]

\* the local build state stays after a successful upload
buildS3VectorStoreForKeepsLocal(m, id, pool, tree) ==
    LET m0 == buildLocalVectorStoreFor(Enter(m, id), id, pool, tree) IN
    IF m0.exc # "none" THEN m0
    ELSE LET m1 == uploadS3VectorstoreFor(m0, id, LocalDir(id), <<>>) IN
         IF m1.exc # "none" THEN m1
         ELSE IF m1.ret = "True" THEN Return(m1, "True")
         ELSE Return(deleteLocalVectorStore(m1, id), "False")

buildS3VectorStoreFor(m, id, pool, tree) ==
    LET m0 == buildLocalVectorStoreFor(Enter(m, id), id, pool, tree) IN
    IF m0.exc # "none" THEN m0
    ELSE LET m1 == uploadS3VectorstoreFor(m0, id, LocalDir(id), <<>>) IN
         IF m1.exc # "none" THEN m1
         ELSE IF m1.ret = "True" THEN Return(deleteLocalVectorStore(m1, id), "True")
         ELSE Return(deleteLocalVectorStore(m1, id), "False")

-----------------------------------------------------------------------------
(* ChatBot *)

\* without the test of line 65: as_retriever is called on whatever was loaded
chatBotLoadedNoCheck(m) ==
    IF m.exc # "none" THEN m
    ELSE IF m.ret = "None" THEN Raise([m EXCEPT !.store = m.ret], "AttributeError")
    ELSE Raise([m EXCEPT !.store = m.ret], "NameError")

\* lines 61 to 85, m being the machine as getS3VectorStoreFor left it: an
\* exception of getS3VectorStoreFor goes on to the caller; None raises the
\* explicit error of line 67; a loaded store reaches line 73
chatBotLoaded(m) ==
    IF m.exc # "none" THEN m
    ELSE IF m.ret = "None" THEN Raise([m EXCEPT !.store = m.ret], "VectorStoreNotLoaded")
    ELSE Raise([m EXCEPT !.store = m.ret], "NameError")

\* ChatBot.__init__(id, from_s3).  Inside the class body a name with two
\* leading underscores is mangled: line 64 asks the VectorStore module for
\* _ChatBot__getLocalVectorStoreFor, which it does not have, and line 73 reads
\* the global _ChatBot__contextualize_q_prompt, which is not defined.  The
\* constructor therefore raises on every path; lines 75 to 85 are not reached.
chatBotInit(m, id, from_s3, openOk) ==
    IF from_s3 THEN chatBotLoaded(getS3VectorStoreFor(m, id, openOk))
    ELSE Raise(m, "AttributeError")

\* the history attribute of a ChatBot object: not assigned yet, None, or the
\* k-th ChatMessageHistory object that was created (k > 0)
Missing == -1
None == 0

\* what a caller may pass as session id; ask_question passes "None"
SessionIds == {"None", "s1", "s2"}

\* a lookup that creates a ChatMessageHistory every time
get_session_historyFresh(c, sid) ==
    [history |-> c.created + 1, created |-> c.created + 1,
     log |-> Append(c.log, [sid |-> sid, ret |-> c.created + 1])]

\* ChatBot.__get_session_history(self, _): the history is created when it is
\* None, and returned; the session id is not looked at
get_session_history(c, sid) ==
    LET h == IF c.history = None THEN c.created + 1 ELSE c.history IN
    [history |-> h,
     created |-> IF c.history = None THEN c.created + 1 ELSE c.created,
     log |-> Append(c.log, [sid |-> sid, ret |-> h])]

\* ChatBot.__del__: the VectorStore module has no attribute deleteVectorStore;
\* the AttributeError raised inside __del__ is printed and ignored by the
\* interpreter, nothing is deleted
chatBotDel(m, id) == Raise(m, "AttributeError")

-----------------------------------------------------------------------------
(* The operations, as the caller sees them *)

\* files of the local directory of id, relative to it
LocalTree(fs, id) ==
    {SubSeq(p, Len(LocalDir(id)) + 1, Len(p)) : p \in {q \in fs : StartsWith(q, LocalDir(id))}}

\* f"vectorstores/{id}/..." for a file at a relative path
KeyOf(id, rel) == <<"vectorstores", SLASH>> \o id \o <<SLASH>> \o Join(rel)

\* the objects of the bucket that belong to id
OwnKeys(bucket, id) == {k \in bucket : StartsWith(k, PrefixOf(id) \o <<SLASH>>)}

\* what is observed of the operation that ran last: its result, the
\* bookkeeping of the machine, the tree staged for upload, and whether the
\* bucket held objects of id when it began
Outcome(op, id, m, tree) ==
    [op |-> op, id |-> id, ret |-> IF m.exc = "none" THEN m.ret ELSE "None",
     exc |-> m.exc, log |-> m.log, n |-> m.n, upx |-> m.upx, raised |-> m.raised,
     delret |-> m.delret, dlret |-> m.dlret, overOld |-> m.overOld,
     store |-> m.store,
     tree |-> tree, had |-> OwnKeys(s3, id) # {}, hadLocal |-> LocalDir(id) \in dirs]

\* what the caller keeps of an operation once it has gone on
Summary(o) == [op |-> o.op, id |-> o.id, ret |-> o.ret, exc |-> o.exc, had |-> o.had]

NoCall == Outcome("none", <<>>, Machine({}, <<>>), {})

\* the caller is between two calls
Idle == last = NoCall

\* the caller may make one more call
Ready == Idle /\ ops < MaxOps

\* the call is made: the bucket and the disk as the operation leaves them
Call(m) ==
    /\ ops' = ops + 1
    /\ s3' = m.s3
    /\ files' = m.files
    /\ dirs' = m.dirs
    /\ prev' = prev
    /\ UNCHANGED <<bots, garbage, chat, race>>

\* the callers that run getS3VectorStoreFor at the same time
Callers == {1, 2}

\* a caller that is not inside getS3VectorStoreFor
IdleCaller ==
    [pc |-> "idle", id |-> <<>>, keys |-> <<>>, i |-> 0, retry |-> 0,
     dlret |-> "None", ret |-> "None", exc |-> "none", hit |-> FALSE]

Init ==
    /\ inited = FALSE
    /\ s3 = {}
    /\ files = {}
    /\ dirs = {}
    /\ built = {}
    /\ last = NoCall
    /\ prev = Summary(NoCall)
    /\ ops = 0
    /\ bots = {}
    /\ garbage = {}
    /\ chat = [history |-> Missing, created |-> 0, log |-> <<>>]
    /\ race = [c \in Callers |-> IdleCaller]

\* initS3Storage(bucket_name)
initS3Storage ==
    /\ Ready
    /\ ops' = ops + 1
    /\ inited' = TRUE
    /\ last' = Outcome("init", <<>>, Machine({}, <<>>), {})
    /\ UNCHANGED <<s3, files, dirs, built, prev, bots, garbage, chat, race>>

\* buildIndex(id)
BuildIndex(id) ==
    /\ Ready
    /\ \/ \E m \in {buildS3VectorStoreFor(Machine({}, <<>>), id, FALSE, {})} :
             /\ Call(m)
             /\ built' = built \cup {id}
             /\ last' = Outcome("build", id, m, {})
             /\ UNCHANGED inited
       \/ \E tree \in Trees, ord \in Orders, F \in FailSets :
           \E m \in {buildS3VectorStoreFor(Machine(F, ord), id, TRUE, tree)} :
             /\ Call(m)
             /\ built' = built \cup {id}
             /\ last' = Outcome("build", id, m, LocalTree(files, id) \cup tree)
             /\ UNCHANGED inited

\* getIndex(id)
GetIndex(id) ==
    /\ Ready
    /\ \E openOk \in BOOLEAN, F \in FailSets :
        \E m \in {getS3VectorStoreFor(Machine(F, <<>>), id, openOk)} :
           /\ Call(m)
           /\ last' = Outcome("get", id, m, {})
           /\ UNCHANGED <<inited, built>>

\* indexExists(id)
IndexExists(id) ==
    /\ Ready
    /\ \E F \in FailSets :
        \E m \in {checkS3VectorStoreFor(Machine(F, <<>>), id)} :
           /\ Call(m)
           /\ last' = Outcome("exists", id, m, {})
           /\ UNCHANGED <<inited, built>>

\* deleteRemoteIndex(id)
DeleteRemoteIndex(id) ==
    /\ Ready
    /\ \E F \in FailSets :
        \E m \in {deleteS3VectorstoreFor(Machine(F, <<>>), id)} :
           /\ Call(m)
           /\ last' = Outcome("delete", id, m, {})
           /\ UNCHANGED <<inited, built>>

\* deleteLocalIndex(id)
DeleteLocalIndex(id) ==
    /\ Ready
    /\ \E m \in {deleteLocalVectorStore(Machine({}, <<>>), id)} :
       /\ Call(m)
       /\ last' = Outcome("deleteLocal", id, m, {})
       /\ UNCHANGED <<inited, built>>

\* __upload_file(id, file_name, father), called on its own
UploadFile(id) ==
    /\ Ready
    /\ \E file_name \in FileNames, father \in Fathers, F \in FailSets :
        \E m \in {upload_file(Machine(F, <<>>), id, file_name, father)} :
           /\ Call(m)
           /\ last' = Outcome("upload", id, m, {})
           /\ UNCHANGED <<inited, built>>

\* the operation has returned and the caller goes on: it keeps the result
Resume ==
    /\ ~Idle
    /\ prev' = Summary(last)
    /\ last' = NoCall
    /\ UNCHANGED <<inited, s3, files, dirs, built, ops, bots, garbage, chat, race>>

\* ChatBot(id, from_s3): the object is allocated, then __init__ runs.  When
\* __init__ raises, nobody holds the object and it awaits its __del__.
ConstructChatBot(id) ==
    /\ Ready
    /\ \E from_s3 \in BOOLEAN, openOk \in BOOLEAN, F \in FailSets :
        \E m \in {chatBotInit(Machine(F, <<>>), id, from_s3, openOk)} :
           /\ ops' = ops + 1
           /\ s3' = m.s3
           /\ files' = m.files
           /\ dirs' = m.dirs
           /\ bots' = IF m.exc = "none" THEN bots \cup {[id |-> id, store |-> m.store]}
                      ELSE bots
           /\ garbage' = IF m.exc = "none" THEN garbage ELSE garbage \cup {id}
           /\ last' = Outcome(IF from_s3 THEN "construct" ELSE "constructLocal", id, m, {})
           /\ UNCHANGED <<inited, built, prev, chat, race>>

\* the interpreter finalizes a ChatBot object nobody holds: __del__ runs
DestroyChatBot(id) ==
    /\ Ready
    /\ id \in garbage
    /\ \E m \in {chatBotDel(Machine({}, <<>>), id)} :
           /\ ops' = ops + 1
           /\ s3' = m.s3
           /\ files' = m.files
           /\ dirs' = m.dirs
           /\ garbage' = garbage \ {id}
           /\ last' = Outcome("destroy", id, m, {})
           /\ UNCHANGED <<inited, built, prev, bots, chat, race>>

\* a ChatBot object on which line 75 has run: self.history = None
InitHistory ==
    /\ inited = FALSE
    /\ s3 = {}
    /\ files = {}
    /\ dirs = {}
    /\ built = {}
    /\ last = NoCall
    /\ prev = Summary(NoCall)
    /\ ops = 0
    /\ bots = {}
    /\ garbage = {}
    /\ chat = [history |-> None, created |-> 0, log |-> <<>>]
    /\ race = [c \in Callers |-> IdleCaller]

\* the chain looks the history of a session up
GetSessionHistory(sid) ==
    /\ chat.history # Missing
    /\ Len(chat.log) < MaxLookups
    /\ chat' = get_session_history(chat, sid)
    /\ UNCHANGED <<inited, s3, files, dirs, built, last, prev, ops, bots, garbage, race>>

NextHistory == \E sid \in SessionIds : GetSessionHistory(sid)

SpecHistory == InitHistory /\ [][NextHistory]_vars

-----------------------------------------------------------------------------
(* getS3VectorStoreFor run by several callers, statement by statement *)

\* no caller is inside getS3VectorStoreFor
Quiet == \A c \in Callers : race[c].pc = "idle"

\* the store is being set up: one caller, one call at a time
Setup == Quiet /\ ops < MaxSetup

\* the local directory of id was deleted under the callers that are past their
\* own deleteLocalVectorStore(id)
Hit(r, c, id) ==
    [d \in Callers |->
        IF d # c /\ r[d].id = id /\ r[d].pc \notin {"idle", "wipe"}
        THEN [r[d] EXCEPT !.hit = TRUE] ELSE r[d]]

\* download_file leaves the file out
downloadFileSkips(fs, target) == fs

\* __bucket.download_file(key, target)
downloadFile(fs, target) == fs \cup {target}

\* where the object that the caller is at goes
TargetOf(r) ==
    PathOf(r.id \o <<SLASH>> \o FatherOf(r.keys[r.i]) \o <<SLASH>>
           \o FileNameOf(r.keys[r.i]))

\* getS3VectorStoreFor(id) is entered: __checkS3init
StartGet(c, id) ==
    /\ Idle
    /\ race[c].pc = "idle"
    /\ race' = [race EXCEPT ![c] =
                   IF inited THEN [IdleCaller EXCEPT !.pc = "wipe", !.id = id]
                   ELSE [IdleCaller EXCEPT !.pc = "done", !.id = id,
                                           !.exc = "ConfigError"]]
    /\ UNCHANGED <<inited, s3, files, dirs, built, last, prev, ops, bots, garbage, chat>>

\* line 235: deleteLocalVectorStore(id)
Wipe(c) ==
    /\ race[c].pc = "wipe"
    /\ \E m \in {deleteLocalVectorStore(Machine({}, <<>>), race[c].id)} :
          /\ files' = m.files
          /\ dirs' = m.dirs
    /\ race' = [Hit(race, c, race[c].id) EXCEPT ![c].pc = "list"]
    /\ UNCHANGED <<inited, s3, built, last, prev, ops, bots, garbage, chat>>

\* lines 237-242: the attempt begins, the objects are listed
List(c) ==
    /\ race[c].pc = "list"
    /\ LET ks == SortKeys(Listing(Machine({}, <<>>), race[c].id)) IN
       race' = [race EXCEPT ![c] =
                   IF ks = <<>>
                   THEN [@ EXCEPT !.pc = "done", !.dlret = "False"]
                   ELSE [@ EXCEPT !.pc = "mkdir", !.keys = ks, !.i = 1]]
    /\ UNCHANGED <<inited, s3, files, dirs, built, last, prev, ops, bots, garbage, chat>>

\* lines 247-250: mkdir -p of the directory of the object
Mkdir(c) ==
    /\ race[c].pc = "mkdir"
    /\ LET t == TargetOf(race[c]) IN
       dirs' = dirs \cup Prefixes(SubSeq(t, 1, Len(t) - 1))
    /\ race' = [race EXCEPT ![c].pc = "download"]
    /\ UNCHANGED <<inited, s3, files, built, last, prev, ops, bots, garbage, chat>>

\* line 252: download_file raises when the directory is not there any more;
\* lines 255-258 catch it and the next attempt begins, or the loop ends
Download(c) ==
    /\ race[c].pc = "download"
    /\ LET r == race[c]
           t == TargetOf(r)
       IN IF SubSeq(t, 1, Len(t) - 1) \in dirs
          THEN /\ files' = downloadFile(files, t)
               /\ race' = [race EXCEPT ![c] =
                              IF r.i = Len(r.keys)
                              THEN [@ EXCEPT !.pc = "open", !.dlret = "True"]
                              ELSE [@ EXCEPT !.pc = "mkdir", !.i = r.i + 1]]
          ELSE /\ files' = files
               /\ race' = [race EXCEPT ![c] =
                              IF r.retry + 1 = Retries
                              THEN [@ EXCEPT !.pc = "cleanup", !.retry = Retries]
                              ELSE [@ EXCEPT !.pc = "list", !.retry = r.retry + 1]]
    /\ UNCHANGED <<inited, s3, dirs, built, last, prev, ops, bots, garbage, chat>>

\* lines 259-261: the attempts are used up
Cleanup(c) ==
    /\ race[c].pc = "cleanup"
    /\ \E m \in {deleteLocalVectorStore(Machine({}, <<>>), race[c].id)} :
          /\ files' = m.files
          /\ dirs' = m.dirs
    /\ race' = [Hit(race, c, race[c].id) EXCEPT ![c].pc = "done", ![c].dlret = "False"]
    /\ UNCHANGED <<inited, s3, built, last, prev, ops, bots, garbage, chat>>

\* line 97: __getLocalVectorStoreFor(id) after a download that returned True
Open(c) ==
    /\ race[c].pc = "open"
    /\ \E openOk \in BOOLEAN :
        \E m \in {getLocalVectorStoreFor(Machine({}, <<>>), race[c].id, openOk)} :
          race' = [race EXCEPT ![c].pc = "done", ![c].ret = m.ret]
    /\ UNCHANGED <<inited, s3, files, dirs, built, last, prev, ops, bots, garbage, chat>>

\* the caller has its result and goes on
Finish(c) ==
    /\ race[c].pc = "done"
    /\ race' = [race EXCEPT ![c] = IdleCaller]
    /\ UNCHANGED <<inited, s3, files, dirs, built, last, prev, ops, bots, garbage, chat>>

NextRace ==
    \/ Setup /\ initS3Storage
    \/ Setup /\ \E id \in Ids : BuildIndex(id)
    \/ Quiet /\ Resume
    \/ \E c \in Callers, id \in Ids : StartGet(c, id)
    \/ \E c \in Callers : Wipe(c)
    \/ \E c \in Callers : List(c)
    \/ \E c \in Callers : Mkdir(c)
    \/ \E c \in Callers : Download(c)
    \/ \E c \in Callers : Cleanup(c)
    \/ \E c \in Callers : Open(c)
    \/ \E c \in Callers : Finish(c)

SpecRace == Init /\ [][NextRace]_vars

Next ==
    \/ initS3Storage
    \/ \E id \in Ids : BuildIndex(id)
    \/ \E id \in Ids : GetIndex(id)
    \/ \E id \in Ids : IndexExists(id)
    \/ \E id \in Ids : DeleteRemoteIndex(id)
    \/ \E id \in Ids : DeleteLocalIndex(id)
    \/ Resume

Spec == Init /\ [][Next]_vars

\* the same program when __upload_file is called on its own as well
\* the application: indexes are built, ChatBots are constructed and destroyed
NextChat ==
    \/ initS3Storage
    \/ \E id \in Ids : BuildIndex(id)
    \/ \E id \in Ids : ConstructChatBot(id)
    \/ \E id \in Ids : DestroyChatBot(id)
    \/ Resume

SpecChat == Init /\ [][NextChat]_vars

NextDirect == Next \/ \E id \in Ids : UploadFile(id)

SpecDirect == Init /\ [][NextDirect]_vars

-----------------------------------------------------------------------------
(* Properties *)

\* the local directory of id is gone
LocalAbsent(id) == \A p \in files \cup dirs : ~StartsWith(p, LocalDir(id))

\* the operation that ran last is one retry-wrapped remote operation
Wrapped == last.op \in {"exists", "delete", "get", "upload"}

ExhaustedLog == <<"attempt", "delay", "attempt", "delay", "attempt", "delay">>

\* C1: after buildIndex(id) returns true the bucket holds, under id, exactly
\* one object per file of the tree that was staged locally, nested files and
\* files listed before a nested directory included (stated here for the runs
\* in which no remote call raised).
C1_BuildMirrorsTree ==
    (last.op = "build" /\ last.ret = "True" /\ last.raised = 0)
        => OwnKeys(s3, last.id) = {KeyOf(last.id, rel) : rel \in last.tree}

\* C2: buildIndex(id) returns false whenever the upload of some file of the
\* tree used up its retries, wherever the file sits in the tree.
C2_ExhaustedUploadFailsBuild ==
    (last.op = "build" /\ last.exc = "none" /\ last.upx) => last.ret = "False"

C4_NeverBuiltAbsent ==
    (last.id \notin built /\ last.exc = "none")
        => /\ last.op = "exists" => last.ret = "False"
           /\ last.op = "get" => last.ret = "None"

\* C5: when buildIndex(id) returned true, the indexExists(id) call made next
\* returns true (stated here for the calls whose listing succeeds at once).
C5_BuiltThenExists ==
    (/\ last.op = "exists" /\ last.log = <<"attempt">> /\ last.exc = "none"
     /\ prev.op = "build" /\ prev.ret = "True" /\ prev.id = last.id)
        => last.ret = "True"

\* C6 as stated: once deleteRemoteIndex(id) has been called on a built id, no
\* object of id is left in the bucket and the next indexExists(id) is false.
C6_DeleteAuthoritative ==
    /\ (last.op = "delete" /\ last.exc = "none" /\ last.had) => OwnKeys(s3, last.id) = {}
    /\ (/\ last.op = "exists" /\ last.exc = "none"
        /\ prev.op = "delete" /\ prev.exc = "none" /\ prev.had /\ prev.id = last.id)
           => last.ret = "False"

\* C6 amended: once deleteRemoteIndex(id) has returned true on a built id, no
\* object of id is left in the bucket and the next indexExists(id) is false.
C6_DeleteAuthoritativeWhenTrue ==
    /\ (last.op = "delete" /\ last.ret = "True" /\ last.had) => OwnKeys(s3, last.id) = {}
    /\ (/\ last.op = "exists" /\ last.exc = "none"
        /\ prev.op = "delete" /\ prev.ret = "True" /\ prev.had /\ prev.id = last.id)
           => last.ret = "False"

C6_Witness ==
    /\ last.op = "exists" /\ last.exc = "none" /\ last.log = <<"attempt">>
    /\ prev.op = "delete" /\ prev.ret = "True" /\ prev.had /\ prev.id = last.id
    /\ last.id \in built

\* C7: deleteRemoteIndex(id) on an id without remote objects returns true and
\* changes nothing (stated here for the calls whose listing succeeds at once).
C7_DeleteAbsentIsNoOp ==
    [][(/\ Idle /\ last'.op = "delete" /\ last'.exc = "none"
        /\ last'.log = <<"attempt">> /\ OwnKeys(s3, last'.id) = {})
          => (last'.ret = "True" /\ s3' = s3 /\ files' = files /\ dirs' = dirs)]_vars

\* C8 as stated: a wrapped remote operation whose three attempts all raised
\* returns failure after three attempts and two delays, each between two
\* attempts.
C8_TwoDelays ==
    (Wrapped /\ last.raised = Retries)
        => /\ last.log = <<"attempt", "delay", "attempt", "delay", "attempt">>
           /\ last.ret \in {"False", "None"}

\* C8 amended: a wrapped remote operation whose three attempts all raised
\* returns failure after exactly three attempts and three delays, one after
\* each failed attempt, the last one after the final attempt.
C8_ThreeDelays ==
    (Wrapped /\ last.raised = Retries)
        => /\ last.log = ExhaustedLog
           /\ last.ret \in {"False", "None"}
           /\ last.exc = "none"

C8_Witness ==
    /\ last.op = "upload" /\ last.raised = Retries /\ last.n = Retries
    /\ last.ret = "False"

\* C9: once remote storage is initialized, indexExists, deleteRemoteIndex and
\* getIndex raise nothing and return a boolean or a handle or absent, and
\* buildIndex raises nothing from its upload phase, whatever remote calls fail.
C9_NoRemoteException ==
    inited =>
        /\ last.op \in {"exists", "delete"}
               => (last.exc = "none" /\ last.ret \in {"True", "False"})
        /\ last.op = "get" => (last.exc = "none" /\ last.ret \in {"Chroma", "None"})
        /\ last.op = "build"
               => \/ last.exc = "PoolNotFound"
                  \/ last.exc = "none" /\ last.ret \in {"True", "False"}

C9_Witness ==
    /\ inited /\ last.op = "build" /\ last.raised >= 2 * Retries
    /\ last.exc = "none" /\ last.ret = "False"

\* C10: before initRemoteStorage, indexExists, deleteRemoteIndex, getIndex and
\* the file upload raise the configuration error without any remote call and
\* without any delay.
C10_FailFastBeforeInit ==
    (Wrapped /\ ~inited)
        => (last.exc = "ConfigError" /\ last.n = 0 /\ last.log = <<>> /\ last.raised = 0)

C10_Witness ==
    /\ ~inited /\ last.op = "upload" /\ last.exc = "ConfigError"
    /\ prev.op = "get" /\ prev.exc = "ConfigError"

\* the files the bucket stores for id, by their path relative to the index
RemoteTree(bucket, id) == {rel \in RelPaths : KeyOf(id, rel) \in bucket}

\* C11: whenever the download step of getIndex(id) succeeded, the local
\* directory of id holds exactly the files of the remote objects stored for
\* id, at the same relative paths, and nothing else.
C11_DownloadMirrorsRemote ==
    (last.op = "get" /\ last.dlret = "True")
        => LocalTree(files, last.id) = RemoteTree(s3, last.id)

\* C12: after buildIndex(id) returned true, no local directory of id remains.
C12_BuiltLeavesNoLocal ==
    (last.op = "build" /\ last.ret = "True") => LocalAbsent(last.id)

C12_Witness ==
    /\ last.op = "build" /\ last.ret = "True" /\ last.raised > 0
    /\ Cardinality(last.tree) > 1 /\ OwnKeys(s3, last.id) # {}

\* C16: in every run of getIndex(id) and of buildIndex(id), a local directory
\* of id that existed before the call is removed before the first file of the
\* new index is written to it (stated here for the calls that returned).
C16_LocalDeletedBeforeWrite ==
    (last.op \in {"get", "build"} /\ last.exc = "none") => ~last.overOld

\* the paths of the disk that belong to the local directory of id
LocalOf(paths, id) == {p \in paths : StartsWith(p, LocalDir(id))}

\* C18: buildIndex(id), getIndex(id), deleteRemoteIndex(id) and
\* deleteLocalIndex(id) leave the remote objects and the local directory of
\* every other id as they were, an id that has id as a string prefix included.
C18_OtherIdsUntouched ==
    [][(Idle /\ last'.op \in {"build", "get", "delete", "deleteLocal"})
          => \A other \in Ids \ {last'.id} :
                /\ OwnKeys(s3', other) = OwnKeys(s3, other)
                /\ LocalOf(files', other) = LocalOf(files, other)
                /\ LocalOf(dirs', other) = LocalOf(dirs, other)]_vars

\* C19: when buildIndex(id), called before initS3Storage, raises the
\* configuration error, no local directory of id has been created or left.
C19_BuildBeforeInitLeavesNothing ==
    (last.op = "build" /\ ~inited /\ last.exc = "ConfigError")
        => (last.hadLocal \/ LocalAbsent(last.id))

\* C20: whenever the download step of getIndex(id) reported failure, no local
\* directory of id remains, files written by earlier attempts included.
C20_FailedDownloadLeavesNoLocal ==
    (last.op = "get" /\ last.dlret = "False") => LocalAbsent(last.id)

C20_Witness ==
    /\ last.op = "get" /\ last.dlret = "False" /\ last.raised = Retries
    /\ last.n >= Retries + 2 /\ LocalAbsent(last.id)

\* C13: after a ChatBot bound to id was destroyed, no remote object of id and
\* no local directory of id remains.
C13_DestroyDeletesIndex ==
    last.op = "destroy" => (OwnKeys(s3, last.id) = {} /\ LocalAbsent(last.id))

\* C14: constructing a ChatBot with from_s3 raises the explicit error and
\* yields no instance whenever getS3VectorStoreFor returned None, and no
\* ChatBot instance exists without a vector store handle.
C14_NoBotWithoutStore ==
    /\ (last.op = "construct" /\ last.store = "None")
           => (last.exc = "VectorStoreNotLoaded" /\ \A b \in bots : b.id # last.id)
    /\ \A b \in bots : b.store = "Chroma"

C14_Witness ==
    /\ last.op = "construct" /\ last.store = "None"
    /\ last.raised = Retries /\ OwnKeys(s3, last.id) # {}
    /\ last.exc = "VectorStoreNotLoaded"

LacksRemoteFile(id) == \E rel \in RemoteTree(s3, id) : rel \notin LocalTree(files, id)

\* C15: with two callers running getS3VectorStoreFor at once against a remote
\* store that does not fail, a caller whose download step returned True finds
\* a file of the remote index missing from the local directory only when
\* another caller deleted the local directory of id in the meantime; the
\* state in which that has happened is C15_Witness.
C15_LackOnlyByOtherWipe ==
    \A c \in Callers :
        (race[c].pc \in {"open", "done"} /\ race[c].dlret = "True"
         /\ LacksRemoteFile(race[c].id)) => race[c].hit

\* the race: one caller's download step returned True, the other caller is
\* inside getS3VectorStoreFor of the same id, and a file is missing
C15_Witness ==
    \E c, d \in Callers :
        /\ c # d /\ race[c].id = race[d].id
        /\ race[c].pc \in {"open", "done"} /\ race[c].dlret = "True"
        /\ race[d].pc \in {"list", "mkdir", "download"}
        /\ LacksRemoteFile(race[c].id)

====
